---- MODULE Spec2Model ----
(***************************************************************************)
(* Lineage knowledge graph: the Cosmos DB Gremlin client                   *)
(* (src/src/knowledge_graph/cosmos_client.py).                             *)
(*                                                                         *)
(* The graph store is the state: a map of vertices keyed by id and a bag   *)
(* of edges.  Client methods are actions; the Gremlin text each method     *)
(* sends is translated step by step (repeat / until / simplePath / path)   *)
(* with TinkerPop's semantics.  A Gremlin query runs against a stable      *)
(* graph: the builder's actions wait while a traversal is being evaluated. *)
(*                                                                         *)
(* The statement analyzer (src/src/ingestion/code_parser.py) and the id    *)
(* builders are functions of their arguments: their specifications apply   *)
(* them to every input of a bounded set.                                   *)
(***************************************************************************)
EXTENDS Naturals, Integers, Sequences, FiniteSets, Bags, TLC

\* ------------------------------------------------------------------ bounds

\* Largest number of edges the store holds in the model.
MaxEdges == 3
\* Largest max_depth a caller passes in the model (the code accepts any int).
MaxDepthArg == 3
\* Number of clients that run upsert_entity.
NumWriters == 2
\* Number of _execute_query calls the model follows.
MaxCalls == 3
\* Longest table or column name the id builders are given.
MaxNameLen == 2
\* Largest number of files in one upload request.
MaxFiles == 2
\* Largest number of ingestion jobs the API is asked for.
MaxJobs == 2
\* Largest number of rows of the files table, and of the runs table.
MaxRows == 3
\* The seconds the clock of the runs goes through.
MaxSeconds == 2

\* ---------------------------------------------------------------- universe

\* Entity ids the model's callers use.
Ids == {"a", "b", "c"}
\* Python's None.
None == "None"
\* GraphEntity.name values the model's writers use.
Names == {"n1", "n2"}
\* transformation_logic values the model's callers pass.
Logics == {None, "t1"}

RelationshipType == {"DERIVES_FROM", "TRANSFORMS_TO", "CONTAINS", "EXECUTES",
                     "READS_FROM", "WRITES_TO", "CASTS_TO", "JOINS_WITH", "DEPENDS_ON"}
\* The edge labels the lineage traversals name.
LineageLabels == {"DERIVES_FROM", "TRANSFORMS_TO"}
\* loops().is(10) of get_transformation_summary and validate_lineage_types.
SummaryDepth == 10

GraphEntity(id, name) == [id |-> id, name |-> name]

\* confidence_score: float = 1.0, in tenths.
default_confidence_score == 10

GraphRelationship(source_id, target_id, relationship_type, transformation_logic) ==
    [source_id |-> source_id, target_id |-> target_id,
     relationship_type |-> relationship_type,
     transformation_logic |-> transformation_logic,
     confidence_score |-> default_confidence_score]

\* create_derives_from_relationship with a confidence the caller gives (in tenths):
\* "target derives from source", the edge leaves the derived column.
create_derives_from_relationship_confidence(source_column_id, target_column_id, transformation, confidence) ==
    [GraphRelationship(target_column_id, source_column_id, "DERIVES_FROM", transformation)
        EXCEPT !.confidence_score = confidence]

\* create_derives_from_relationship with confidence left at its default.
create_derives_from_relationship(source_column_id, target_column_id, transformation) ==
    create_derives_from_relationship_confidence(source_column_id, target_column_id,
                                                transformation, default_confidence_score)

\* The relationships the callers of the lineage queries' model store.
RelInputs ==
    { GraphRelationship(s, t, ty, None) : s \in Ids, t \in Ids, ty \in {"DERIVES_FROM", "CONTAINS"} }

\* The relationships the callers of the transformation summary's model store.
LogicRelInputs ==
    { GraphRelationship(s, t, "DERIVES_FROM", tl) : s \in Ids, t \in Ids, tl \in Logics }

VARIABLES
    vertices,    \* the store's vertices: id -> properties, for the ids present
    edges,       \* the store's edges: a bag of [outV, inV, label, transformation_logic]
    relMissing,  \* endpoints the last create_relationship call named and left absent
    trav,        \* the Gremlin traversal being evaluated
    writers,     \* each writer's upsert_entity call: where it is and what it saw
    call,        \* the _execute_query call under the retry decorator
    parsed,      \* the parse_sql call of the ingestion: its tree and what came back
    built,       \* the entity the id builders were last asked for
    upload,      \* the upload_files request being handled: its files, results, counters
    config,      \* the upload configuration held in memory, and the last response
    registry,    \* the artifact manager's database, and where each of its callers is
    jobs         \* the ingestion jobs of the API, by job id

storeVars == <<vertices, edges, relMissing, trav>>
graphVars == <<vertices, edges, relMissing, trav, writers, call, parsed, built>>
apiVars == <<upload, config, registry, jobs>>
vars == <<vertices, edges, relMissing, trav, writers, call, parsed, built,
          upload, config, registry, jobs>>

\* ------------------------------------------------------------------- store

IdleTrav == [pc |-> "idle", kind |-> None, start |-> None, target |-> None,
             max_depth |-> 0, loops |-> 0, frontier |-> EmptyBag, results |-> EmptyBag]

Writers == 1..NumWriters

IdleWriter == [pc |-> "idle", entity |-> None, count |-> 0, result |-> None]

IdleCall == [pc |-> "idle", query |-> None, attempt_number |-> 0, submitted |-> 0,
             log |-> << >>, wait |-> 0, returned |-> 0, raised |-> 0]

IdleParse == [pc |-> "idle"]

IdleBuild == [pc |-> "idle"]

IdleUpload == [pc |-> "idle"]

\* config as the process starts with it (.sql and .ddl allowed, 50 MB), with
\* MAX_FILE_SIZE computed from it at import; no settings saved, no request
\* answered yet.
InitialConfig ==
    [ALLOWED_FILE_EXTENSIONS |-> {".sql", ".ddl"},
     UPLOAD_MAX_FILE_SIZE_MB |-> 50,
     MAX_FILE_SIZE |-> 50 * 1024 * 1024,
     persisted |-> << >>, status_code |-> 0]

\* The files and runs tables empty, the clock in its first second, no call of
\* the artifact manager under way.
EmptyRegistry ==
    [files |-> << >>, runs |-> << >>, now |-> 1,
     callers |-> [p \in Writers |-> [pc |-> "idle"]]]

Init ==
    /\ vertices = << >>
    /\ edges = EmptyBag
    /\ relMissing = {}
    /\ trav = IdleTrav
    /\ writers = [w \in Writers |-> IdleWriter]
    /\ call = IdleCall
    /\ parsed = IdleParse
    /\ built = IdleBuild
    /\ upload = IdleUpload
    /\ config = InitialConfig
    /\ registry = EmptyRegistry
    /\ jobs = << >>

HasVertex(id) == id \in DOMAIN vertices

\* g.addV(label).property('id', id)...: the store keeps one vertex per id, with
\* the properties the entity carries.
AddV(entity) == [x \in (DOMAIN vertices) \cup {entity.id} |->
                    IF x = entity.id THEN [k \in DOMAIN entity \ {"id"} |-> entity[k]]
                    ELSE vertices[x]]

\* create_entity: one addV query; an id already present is rejected by the store.
create_entity(entity) ==
    /\ trav.pc = "idle"
    /\ ~HasVertex(entity.id)
    /\ vertices' = AddV(entity)
    /\ relMissing' = {}
    /\ UNCHANGED <<edges, trav, writers, call, parsed, built, apiVars>>

\* The edge g.V(source_id).addE(type).to(g.V(target_id)) adds.
AddE(relationship) ==
    [outV |-> relationship.source_id, inV |-> relationship.target_id,
     label |-> relationship.relationship_type,
     transformation_logic |-> relationship.transformation_logic,
     confidence_score |-> relationship.confidence_score]

\* create_relationship: addE from V(source_id) to V(target_id); with no vertex for
\* source_id the traversal is empty, with none for target_id the step has nothing
\* to attach to: in both cases no edge is stored and no vertex is created.
create_relationship(relationship) ==
    /\ trav.pc = "idle"
    /\ IF HasVertex(relationship.source_id) /\ HasVertex(relationship.target_id)
       THEN /\ BagCardinality(edges) < MaxEdges
            /\ edges' = edges (+) SetToBag({AddE(relationship)})
            /\ relMissing' = {}
       ELSE /\ edges' = edges
            /\ relMissing' = {relationship.source_id, relationship.target_id}
                                \ DOMAIN vertices
    /\ UNCHANGED <<vertices, trav, writers, call, parsed, built, apiVars>>

\* --------------------------------------------------------------- traversal

\* A traverser's path(): the vertices visited and the edges walked between them.
StartPath(v) == [vs |-> <<v>>, es |-> << >>]
PathEnd(p) == p.vs[Len(p.vs)]
Hops(p) == Len(p.es)
Extend(p, e, v) == [vs |-> Append(p.vs, v), es |-> Append(p.es, e)]
Parent(p) == [vs |-> SubSeq(p.vs, 1, Len(p.vs) - 1), es |-> SubSeq(p.es, 1, Len(p.es) - 1)]

\* inE(labels) / outE(labels) of a vertex: the distinct edge values; an edge value
\* stored n times stands for n edges (see RepeatStep).
InE(v, labels) == { e \in BagToSet(edges) : e.inV = v /\ e.label \in labels }
OutE(v, labels) == { e \in BagToSet(edges) : e.outV = v /\ e.label \in labels }

\* Mutant: a simplePath() that lets every traverser through.
NoSimplePath(p) == TRUE

\* simplePath(): the traverser's path holds no object twice.
SimplePath(p) == \A i, j \in 1..Len(p.vs) : p.vs[i] = p.vs[j] => i = j

\* The body of repeat(...), applied to one traverser.
RepeatBody(kind, p) ==
    LET next ==
          CASE kind = "upstream" ->
                 { Extend(p, e, e.outV) : e \in InE(PathEnd(p), LineageLabels) }
            [] kind = "downstream" ->
                 { Extend(p, e, e.inV) : e \in OutE(PathEnd(p), LineageLabels) }
            [] kind = "path" ->
                 { Extend(p, e, e.inV) : e \in OutE(PathEnd(p), RelationshipType) }
            [] kind = "summary" ->
                 { Extend(p, e, e.outV) :
                     e \in { x \in InE(PathEnd(p), LineageLabels) :
                               x.transformation_logic # None } }
            [] kind = "validate" ->
                 { Extend(p, e, e.outV) : e \in InE(PathEnd(p), {"DERIVES_FROM"}) }
    IN { q \in next : SimplePath(q) }

\* Mutant: an until(...) of the lineage queries without the loops().is(max_depth) arm.
UntilNoDepth(kind, p, loops, max_depth, target) ==
    CASE kind = "upstream" -> InE(PathEnd(p), LineageLabels) = {}
      [] kind = "downstream" -> OutE(PathEnd(p), LineageLabels) = {}
      [] kind = "path" -> PathEnd(p) = target
      [] kind = "summary" -> loops = SummaryDepth
      [] kind = "validate" -> loops = SummaryDepth

\* The condition of until(...), checked after each pass through the body.
Until(kind, p, loops, max_depth, target) ==
    CASE kind = "upstream" -> InE(PathEnd(p), LineageLabels) = {} \/ loops = max_depth
      [] kind = "downstream" -> OutE(PathEnd(p), LineageLabels) = {} \/ loops = max_depth
      [] kind = "path" -> PathEnd(p) = target \/ loops = max_depth
      [] kind = "summary" -> loops = SummaryDepth
      [] kind = "validate" -> loops = SummaryDepth

\* Mutant: find_lineage_path without its has('id', target) after the loop.
NoAfterLoop(kind, p, target) == TRUE

\* The steps between until(...) and path(): find_lineage_path's has('id', target).
AfterLoop(kind, p, target) == kind = "path" => PathEnd(p) = target

\* One pass of repeat/until over every traverser: [frontier, results].
\* A path reached through an edge value stored n times is reached n times.
RepeatStep(t) ==
    LET loops == t.loops + 1
        moved == UNION { RepeatBody(t.kind, p) : p \in BagToSet(t.frontier) }
        copies(q) == CopiesIn(Parent(q), t.frontier) * CopiesIn(q.es[Len(q.es)], edges)
        out == { q \in moved : Until(t.kind, q, loops, t.max_depth, t.target) }
        kept == { q \in out : AfterLoop(t.kind, q, t.target) }
    IN [frontier |-> [q \in moved \ out |-> copies(q)],
        results |-> t.results (+) [q \in kept |-> copies(q)]]

\* g.V(entity_id): one traverser when the vertex exists, none otherwise.
Submit(kind, start, target, max_depth) ==
    /\ trav.pc = "idle"
    /\ trav' = [pc |-> "running", kind |-> kind, start |-> start, target |-> target,
                max_depth |-> max_depth, loops |-> 0,
                frontier |-> IF HasVertex(start) THEN SetToBag({StartPath(start)})
                             ELSE EmptyBag,
                results |-> EmptyBag]
    /\ relMissing' = {}
    /\ UNCHANGED <<vertices, edges, writers, call, parsed, built, apiVars>>

get_upstream_lineage(entity_id, max_depth) == Submit("upstream", entity_id, None, max_depth)

get_downstream_lineage(entity_id, max_depth) == Submit("downstream", entity_id, None, max_depth)

find_lineage_path(source_id, target_id, max_depth) == Submit("path", source_id, target_id, max_depth)

get_transformation_summary(entity_id) == Submit("summary", entity_id, None, SummaryDepth)

\* The store evaluates one pass of the repeat loop; with no traverser left the
\* query is complete.
Traverse ==
    /\ trav.pc = "running"
    /\ LET r == RepeatStep(trav)
       IN trav' = [trav EXCEPT !.loops = IF trav.frontier = EmptyBag THEN @ ELSE @ + 1,
                               !.frontier = r.frontier,
                               !.results = r.results,
                               !.pc = IF r.frontier = EmptyBag THEN "done" ELSE "running"]
    /\ UNCHANGED <<vertices, edges, relMissing, writers, call, parsed, built, apiVars>>

\* _execute_query hands the result list to the caller.
Return ==
    /\ trav.pc = "done"
    /\ trav' = IdleTrav
    /\ UNCHANGED <<vertices, edges, relMissing, writers, call, parsed, built, apiVars>>

\* The Python half of get_transformation_summary: every item of every returned
\* path that has a transformation_logic key adds its value to the list (vertices
\* carry no such key); the list's set and length are returned.
RECURSIVE ListLength(_, _)
ListLength(paths, results) ==
    IF paths = {} THEN 0
    ELSE LET p == CHOOSE x \in paths : TRUE
         IN CopiesIn(p, results)
              * Cardinality({ i \in 1..Len(p.es) : p.es[i].transformation_logic # None })
            + ListLength(paths \ {p}, results)

TransformationSummary(entity_id, results) ==
    [entity_id |-> entity_id,
     transformations |->
        { p.es[i].transformation_logic : <<p, i>> \in
            { <<q, j>> \in BagToSet(results) \X (1..MaxEdges) :
                j <= Len(q.es) /\ q.es[j].transformation_logic # None } },
     transformation_count |-> ListLength(BagToSet(results), results)]

\* validate_lineage_types: the query, and the Python half over its results. Each
\* result selects the last 'source' of a path; a source with a data_type adds one
\* issue, a source without one (source_type None) adds nothing.
validate_lineage_types(entity_id) == Submit("validate", entity_id, None, SummaryDepth)

issues(results) ==
    LET typed == { p \in BagToSet(results) : "data_type" \in DOMAIN vertices[PathEnd(p)] }
    IN [p \in typed |-> CopiesIn(p, results)]

DepthArgs == 1..MaxDepthArg

Next ==
    \/ \E id \in Ids : create_entity(GraphEntity(id, "n1"))
    \/ \E r \in RelInputs : create_relationship(r)
    \/ \E s, t \in Ids : create_relationship(create_derives_from_relationship(s, t, None))
    \/ \E id \in Ids, k \in DepthArgs : get_upstream_lineage(id, k)
    \/ \E id \in Ids, k \in DepthArgs : get_downstream_lineage(id, k)
    \/ \E s, t \in Ids, k \in DepthArgs : find_lineage_path(s, t, k)
    \/ Traverse
    \/ Return

\* Building a graph and querying it for lineage paths.
Spec == Init /\ [][Next]_vars

NextSummary ==
    \/ \E id \in Ids : create_entity(GraphEntity(id, "n1"))
    \/ \E r \in LogicRelInputs : create_relationship(r)
    \/ \E id \in Ids : get_transformation_summary(id)
    \/ Traverse
    \/ Return

\* Building a graph whose edges carry transformation_logic and summarising it.
SpecSummary == Init /\ [][NextSummary]_vars

\* Building a graph of columns, some with a declared data_type, and validating it.
SpecValidate ==
    Init /\ [][
        \/ \E id \in Ids : create_entity(GraphEntity(id, "n1"))
        \/ \E id \in Ids, data_type \in {"int", "varchar"} :
              create_entity([id |-> id, name |-> "n1", data_type |-> data_type])
        \/ \E s, t \in Ids : create_relationship(create_derives_from_relationship(s, t, None))
        \/ \E id \in Ids : validate_lineage_types(id)
        \/ Traverse
        \/ Return
      ]_vars

\* Relationships stored with the default confidence and with one the caller
\* gives (in tenths: below 0, inside [0, 1], above 1).
SpecConfidence ==
    Init /\ [][
        \/ \E id \in Ids : create_entity(GraphEntity(id, "n1"))
        \/ \E s \in Ids : \E t \in Ids \ {s} :
              create_relationship(GraphRelationship(s, t, "CONTAINS", None))
        \/ \E s \in Ids, confidence \in {-5, 5, 15} : \E t \in Ids \ {s} :
              create_relationship(create_derives_from_relationship_confidence(s, t, None, confidence))
      ]_vars

\* max_depth: int = 10 in the signatures of the lineage queries.
default_max_depth == 10

\* What a caller writes for max_depth: nothing, or one int of its choice.
CallerDepths == {<< >>, <<-1>>, <<0>>, <<51>>}

\* Python binds the default when the caller gives no max_depth; the value then
\* goes into the query text as it is.
bind_max_depth(arg) == IF arg = << >> THEN default_max_depth ELSE arg[1]

NextDepth ==
    \/ \E id \in Ids : create_entity(GraphEntity(id, "n1"))
    \/ \E r \in RelInputs : create_relationship(r)
    \/ \E id \in Ids, k \in CallerDepths : get_upstream_lineage(id, bind_max_depth(k))
    \/ \E id \in Ids, k \in CallerDepths : get_downstream_lineage(id, bind_max_depth(k))
    \/ \E s, t \in Ids, k \in CallerDepths : find_lineage_path(s, t, bind_max_depth(k))
    \/ Traverse
    \/ Return

\* Callers that leave max_depth out or pass values outside 1..50.
SpecDepth == Init /\ [][NextDepth]_vars

\* ------------------------------------------------------------------ upsert

\* The entities the writers upsert.
UpsertEntities == { GraphEntity(id, name) : id \in Ids, name \in Names }

\* Mutant: the existence test takes one vertex for none.
MoreThanOne(count) == count > 1

\* "if count and count[0] > 0"
Exists(count) == count > 0

\* upsert_entity, first query: g.V(id).count().
upsert_count(w, entity) ==
    /\ writers[w].pc = "idle"
    /\ writers' = [writers EXCEPT ![w] =
                     [pc |-> "counted", entity |-> entity,
                      count |-> IF HasVertex(entity.id) THEN 1 ELSE 0, result |-> None]]
    /\ UNCHANGED <<storeVars, call, parsed, built, apiVars>>

\* upsert_entity, second query: the property update of the vertex found, or
\* create_entity.  The store holds one vertex per id and partition: an addV for an
\* id that is present by now is rejected and the error reaches the caller.
upsert_write(w) ==
    LET entity == writers[w].entity
    IN /\ writers[w].pc = "counted"
       /\ IF Exists(writers[w].count)
          THEN /\ vertices' = [vertices EXCEPT ![entity.id] = [name |-> entity.name]]
               /\ writers' = [writers EXCEPT ![w].pc = "done", ![w].result = "updated"]
          ELSE IF HasVertex(entity.id)
          THEN /\ vertices' = vertices
               /\ writers' = [writers EXCEPT ![w].pc = "done", ![w].result = "conflict"]
          ELSE /\ vertices' = AddV(entity)
               /\ writers' = [writers EXCEPT ![w].pc = "done", ![w].result = "created"]
       /\ UNCHANGED <<edges, relMissing, trav, call, parsed, built, apiVars>>

\* upsert_entity returns entity.id, or the store's error leaves it.
upsert_return(w) ==
    /\ writers[w].pc = "done"
    /\ writers' = [writers EXCEPT ![w] = IdleWriter]
    /\ UNCHANGED <<storeVars, call, parsed, built, apiVars>>

NextUpsert ==
    \/ \E w \in Writers, entity \in UpsertEntities : upsert_count(w, entity)
    \/ \E w \in Writers : upsert_write(w)
    \/ \E w \in Writers : upsert_return(w)

\* Writers upserting concurrently: their queries interleave in any order.
SpecUpsert == Init /\ [][NextUpsert]_vars

NextUpsertSeq ==
    \/ \E w \in Writers, entity \in UpsertEntities :
          /\ \A v \in Writers : writers[v].pc = "idle"
          /\ upsert_count(w, entity)
    \/ \E w \in Writers : upsert_write(w)
    \/ \E w \in Writers : upsert_return(w)

\* Upserts one after the other: a call starts when no other call is under way.
SpecUpsertSeq == Init /\ [][NextUpsertSeq]_vars

\* ---------------------------------------------------------- _execute_query

\* The queries the model submits: one the store can run, one it cannot parse.
Queries == {"well_formed", "malformed"}

\* stop_after_attempt(3)
max_attempt_number == 3

RECURSIVE Pow(_, _)
Pow(b, n) == IF n = 0 THEN 1 ELSE b * Pow(b, n - 1)

Max(x, y) == IF x >= y THEN x ELSE y
Min(x, y) == IF x <= y THEN x ELSE y

\* wait_exponential(multiplier=1, min=2, max=10), with tenacity's exp_base of 2.
wait_exponential(attempt_number) ==
    Max(Max(0, 2), Min(1 * Pow(2, attempt_number - 1), 10))

\* The decorator's retry condition: none is given, so tenacity retries on every
\* exception; both arms of the except clause re-raise.
retry_if_exception(outcome) == outcome # "ok"

\* The caller enters _execute_query(query).
execute_query(query) ==
    /\ call.pc = "idle"
    /\ call.returned + call.raised < MaxCalls
    /\ call' = [call EXCEPT !.pc = "attempt", !.query = query, !.attempt_number = 1,
                            !.submitted = 0, !.log = << >>, !.wait = 0]
    /\ UNCHANGED <<storeVars, writers, parsed, built, apiVars>>

\* A stop rule that lets one more attempt through.
stop_one_later(attempt_number) == attempt_number > max_attempt_number

\* stop_after_attempt(3): no retry once the attempt just made was the third.
stop_after_attempt(attempt_number) == attempt_number >= max_attempt_number

\* One attempt: submit(query) and the store's answer.  The store may throttle any
\* request; otherwise it rejects a malformed query and answers a well-formed one.
attempt(outcome) ==
    /\ call.pc = "attempt"
    /\ outcome \in {"throttled", IF call.query = "malformed" THEN "malformed" ELSE "ok"}
    /\ LET log == Append(call.log, outcome)
       IN call' =
            IF ~retry_if_exception(outcome)
            THEN [call EXCEPT !.pc = "returned", !.submitted = @ + 1, !.log = log]
            ELSE IF stop_after_attempt(call.attempt_number)
            THEN [call EXCEPT !.pc = "raised", !.submitted = @ + 1, !.log = log]
            ELSE [call EXCEPT !.pc = "sleep", !.submitted = @ + 1, !.log = log,
                              !.wait = wait_exponential(call.attempt_number)]
    /\ UNCHANGED <<storeVars, writers, parsed, built, apiVars>>

\* The backoff is over: the next attempt starts.
wake ==
    /\ call.pc = "sleep"
    /\ call' = [call EXCEPT !.pc = "attempt", !.attempt_number = @ + 1, !.wait = 0]
    /\ UNCHANGED <<storeVars, writers, parsed, built, apiVars>>

\* The caller has the result list or the error (tenacity's RetryError); it may
\* issue the next call.
finish ==
    /\ call.pc \in {"returned", "raised"}
    /\ call' = [IdleCall EXCEPT
                 !.returned = call.returned + (IF call.pc = "returned" THEN 1 ELSE 0),
                 !.raised = call.raised + (IF call.pc = "raised" THEN 1 ELSE 0)]
    /\ UNCHANGED <<storeVars, writers, parsed, built, apiVars>>

NextQuery ==
    \/ \E query \in Queries : execute_query(query)
    \/ \E outcome \in {"ok", "throttled", "malformed"} : attempt(outcome)
    \/ wake
    \/ finish

\* A client running queries through _execute_query against a store that may fail.
SpecQuery == Init /\ [][NextQuery]_vars

\* ------------------------------------------------------- statement analyzer

\* A text (what sql() gives, a name in the result) is a sequence of words;
\* the empty sequence stands for Python's None where a text is expected.
Nothing == << >>
console == <<"console">>

\* str.upper() on the words of the model.
Upper(word) ==
    CASE word = "count" -> "COUNT"
      [] word = "Convert" -> "CONVERT"
      [] word = "my_udf" -> "MY_UDF"
      [] word = "trigger" -> "TRIGGER"
      [] word = "on" -> "ON"
      [] OTHER -> word

\* exp.Table: sql() writes the alias after the name.
Table(name, alias) == [name |-> name, alias |-> alias]

TableSql(table) ==
    IF table.alias = None THEN <<table.name>> ELSE <<table.name, "AS", table.alias>>

\* The nodes of a SELECT list, with what the analyzer reads of each: sql(),
\* this (the first operand; a Star has none), the argument "expression" (an
\* Alias has the arguments this and alias only) and the leaf columns below it.
Column(name) ==
    [cls |-> "Column", sql |-> <<name>>, this |-> <<name>>, expression |-> Nothing,
     alias |-> None, columns |-> {<<name>>}]

Add(left, right) ==
    [cls |-> "Add", sql |-> <<left, "+", right>>, this |-> <<left>>,
     expression |-> <<right>>, alias |-> None, columns |-> {<<left>>, <<right>>}]

Star ==
    [cls |-> "Star", sql |-> <<"*">>, this |-> Nothing, expression |-> Nothing,
     alias |-> None, columns |-> {}]

Alias(e, alias) ==
    [cls |-> "Alias", sql |-> e.sql \o <<"AS", alias>>, this |-> e.sql,
     expression |-> Nothing, alias |-> alias, columns |-> e.columns]

\* ast.expression: absent, a VALUES list, a UNION of queries, or a Select with
\* its projections (selects) and the Alias nodes of the subqueries and CTEs
\* below it (nested).
NoExpression == [cls |-> "None", sql |-> Nothing, selects |-> << >>, nested |-> << >>]
Values == [cls |-> "Values", sql |-> <<"VALUES", "(1)">>, selects |-> << >>, nested |-> << >>]
UnionBody == [cls |-> "Union", sql |-> <<"SELECT", "UNION", "SELECT">>, selects |-> << >>, nested |-> << >>]
Select(selects, nested) ==
    [cls |-> "Select", sql |-> <<"SELECT">>, selects |-> selects, nested |-> nested]

\* ast.this of a writing statement: the Table itself, a Schema around it (a
\* column list follows the name) or the name node of a function or procedure.
\* tables are the Table nodes find_all meets in it.
TableThis(name) == [cls |-> "Table", sql |-> <<name>>, tables |-> {Table(name, None)}]
SchemaThis(name) == [cls |-> "Schema", sql |-> <<name, "(a)">>, tables |-> {Table(name, None)}]
FunctionThis(name) == [cls |-> "UserDefinedFunction", sql |-> <<name>>, tables |-> {}]
NoThis == [cls |-> "None", sql |-> Nothing, tables |-> {}]

\* The tree parse_one returns, by what parse_sql reads of it.
Tree(cls, kind, this, tables, expression, own, anonymous, text) ==
    [cls |-> cls, kind |-> kind, this |-> this, tables |-> tables,
     expression |-> expression, own |-> own, anonymous |-> anonymous, text |-> text]

\* result = {"read": set(), "write": None, "columns": [], ...}
EmptyResult ==
    [read |-> {}, write |-> Nothing, columns |-> << >>,
     functions_and_procedures |-> {}, views |-> {}, triggers |-> {},
     synonyms |-> {}, materialized_views |-> {}, procedure_calls |-> {}]

write_types == {"Insert", "Update", "Create"}

\* re.search(r"(?i)<keyword>\s+([^\s]+)\s+<then>\s+([^\s]+)", expression): the
\* first place in the text where the four words stand in a row.
Search(keyword, then, text) ==
    LET at == { i \in 1..Len(text) :
                  /\ i + 3 <= Len(text)
                  /\ Upper(text[i]) = keyword
                  /\ Upper(text[i + 2]) = then }
    IN IF at = {} THEN {}
       ELSE LET i == CHOOSE j \in at : \A k \in at : j <= k
            IN { <<text[i + 1], text[i + 3]>> }

\* Lines 66-119: the write target and the side entities.
Classify(ast) ==
    LET kind == Upper(ast.kind)
        name == ast.this.sql
    IN IF ast.cls \in write_types
       THEN CASE kind = "VIEW" ->
                   [EmptyResult EXCEPT !.views = {name}, !.write = name]
              [] kind = "MATERIALIZED VIEW" ->
                   [EmptyResult EXCEPT !.materialized_views = {name}, !.write = name]
              [] kind = "TRIGGER" ->
                   [EmptyResult EXCEPT !.triggers = {[name |-> name, target |-> Nothing]}]
              [] kind = "SYNONYM" ->
                   [EmptyResult EXCEPT
                      !.synonyms = {[name |-> name, target |-> ast.expression.sql]}]
              [] kind \in {"FUNCTION", "PROCEDURE"} ->
                   [EmptyResult EXCEPT !.functions_and_procedures = {name}]
              [] OTHER ->
                   IF ast.this.cls = "Table"
                   THEN [EmptyResult EXCEPT !.write = name]
                   ELSE EmptyResult
       ELSE IF ast.cls = "Command" /\ Upper(ast.this.sql[1]) = "CREATE"
       THEN [EmptyResult EXCEPT
               !.triggers = { [name |-> <<m[1]>>, target |-> <<m[2]>>] :
                                m \in Search("TRIGGER", "ON", ast.text) },
               !.synonyms = { [name |-> <<m[1]>>, target |-> <<m[2]>>] :
                                m \in Search("SYNONYM", "FOR", ast.text) }]
       ELSE EmptyResult

\* ast.find_all(exp.Table): every Table node of the tree, the target's included.
FindAllTables(ast) == ast.this.tables \cup ast.tables

\* Lines 121-125: every table whose sql() differs from the write target.
ReadTables(ast, write) ==
    { TableSql(table) : table \in { t \in FindAllTables(ast) : TableSql(t) # write } }

\* The names _extract_procedure_calls never reports for a function call.
Builtins == {"COUNT", "SUM", "AVG", "MIN", "MAX", "CAST", "CONVERT"}

\* _extract_procedure_calls: one entry per Command node (named by its this),
\* one per Anonymous node whose name is outside the built-in names.
ExtractProcedureCalls(ast) ==
    { [name |-> ast.this.sql[1], type |-> "stored_procedure"] :
        c \in IF ast.cls = "Command" THEN {ast} ELSE {} }
    \cup
    { [name |-> func_name, type |-> "function_call"] :
        func_name \in { f \in ast.anonymous : Upper(f) \notin Builtins } }

IsAlias(e) == e.cls = "Alias"
IsBare(e) == e.cls # "Alias"

\* Lines 134-148 for one Alias node: lineage() is called on the node's argument
\* "expression"; without one the call fails with an AttributeError.
AliasRecord(projection) ==
    IF projection.expression = Nothing
    THEN [exc |-> "AttributeError", record |-> Nothing]
    ELSE [exc |-> None,
          record |-> [target |-> projection.this, sources |-> projection.columns,
                      transformation |-> projection.expression]]

\* Lines 150-160 for one projection that is no Alias: lineage() is called on the
\* node itself (has_lineage: the sqlglot in use gives its nodes such a method and
\* it returns the node's tree; otherwise AttributeError), then sql() on its this.
BareRecord(col, has_lineage) ==
    IF ~has_lineage \/ col.this = Nothing
    THEN [exc |-> "AttributeError", record |-> Nothing]
    ELSE [exc |-> None,
          record |-> [target |-> col.this, sources |-> col.columns,
                      transformation |-> col.sql]]

\* Lines 131-160: the column records, or the first exception.
ColumnRecords(ast, has_lineage) ==
    IF ast.expression.cls # "Select" THEN [exc |-> None, columns |-> << >>]
    ELSE LET aliased == SelectSeq(ast.expression.selects, IsAlias) \o ast.expression.nested
             bare == SelectSeq(ast.expression.selects, IsBare)
             all == [i \in 1..Len(aliased) |-> AliasRecord(aliased[i])]
                    \o [i \in 1..Len(bare) |-> BareRecord(bare[i], has_lineage)]
             failed == { i \in 1..Len(all) : all[i].exc # None }
         IN IF failed # {}
            THEN [exc |-> all[CHOOSE i \in failed : \A j \in failed : i <= j].exc,
                  columns |-> << >>]
            ELSE [exc |-> None, columns |-> [i \in 1..Len(all) |-> all[i].record]]

\* Lines 173-175: if not result["write"] and (result["read"] or result["columns"]).
ConsoleFallback(write, read, columns) ==
    IF write = Nothing /\ (read # {} \/ columns # << >>) THEN console ELSE write

\* An except clause for the parser's own error class alone.
except_ParseError(exc) == exc = "ParseError"

\* except Exception: every error the body can raise is an Exception.
except_Exception(exc) == TRUE

\* The body of parse_sql's try block: [exc, value], value None for "return None".
ParseBody(ast, has_lineage) ==
    IF ast.cls = "ParseError" THEN [exc |-> "ParseError", value |-> None, result |-> EmptyResult]
    ELSE IF ast.cls = "None" THEN [exc |-> None, value |-> None, result |-> EmptyResult]
    ELSE LET classified == Classify(ast)
             read == ReadTables(ast, classified.write)
             calls == ExtractProcedureCalls(ast)
             cols == ColumnRecords(ast, has_lineage)
         IN IF cols.exc # None
            THEN [exc |-> cols.exc, value |-> None, result |-> EmptyResult]
            ELSE [exc |-> None, value |-> "dict",
                  result |-> [classified EXCEPT
                                !.read = read,
                                !.procedure_calls = calls,
                                !.columns = cols.columns,
                                !.write = ConsoleFallback(classified.write, read, cols.columns)]]

\* parse_one gave no tree (nothing to parse).
NoTree == Tree("None", "", NoThis, {}, NoExpression, NoExpression, {}, << >>)

\* parse_one raised: the text is no statement of the dialect.
Unparsable == Tree("ParseError", "", NoThis, {}, NoExpression, NoExpression, {}, << >>)

\* The table references a statement holds besides its target.
Sources == SUBSET {Table("x", None), Table("x", "t"), Table("y", None)}

\* SELECT lists and the aliased projections of subqueries below them.
SelectLists ==
    { <<Alias(Add("a", "b"), "c")>>, <<Column("a")>>, <<Star>>,
      <<Column("a"), Alias(Column("b"), "c")>>, <<Add("a", "b")>> }

NestedAliases == { << >>, <<Alias(Column("d"), "e")>> }

Selects == { Select(s, n) : s \in SelectLists, n \in NestedAliases }

\* Calls of functions sqlglot has no class for.
AnonymousCalls == { {}, {"my_udf"}, {"count", "Convert"}, {"my_udf", "count"} }

\* A Command node: the word it is named by and the rest of its text.
CommandThis(word) == [cls |-> "str", sql |-> <<word>>, tables |-> {}]

CommandTexts ==
    { <<"dbo.p">>, <<"TRIGGER", "trg", "ON", "x">>, <<"trigger", "trg", "on", "x">>,
      <<"SYNONYM", "s", "FOR", "y">> }

\* The trees the model's statements parse to.
Trees ==
    {NoTree, Unparsable}
    \cup { Tree("Insert", "", this, tables, expression, NoExpression, anonymous, << >>) :
             this \in {TableThis("x"), SchemaThis("x")}, tables \in Sources,
             expression \in {Values} \cup Selects, anonymous \in AnonymousCalls }
    \cup { Tree("Update", "", TableThis("x"), tables, NoExpression, NoExpression, anonymous, << >>) :
             tables \in Sources, anonymous \in AnonymousCalls }
    \cup { Tree("Create", kind, this, tables, expression, NoExpression, {}, << >>) :
             kind \in {"TABLE", "VIEW", "MATERIALIZED VIEW"},
             this \in {TableThis("x"), SchemaThis("x")}, tables \in Sources,
             expression \in {UnionBody} \cup Selects }
    \cup { Tree("Create", "TABLE", SchemaThis("x"), tables, NoExpression, NoExpression, {}, << >>) :
             tables \in {{}, {Table("y", None)}} }
    \cup { Tree("Create", kind, this, tables, NoExpression, NoExpression, {}, << >>) :
             kind \in {"FUNCTION", "PROCEDURE"},
             this \in {FunctionThis("f"), TableThis("f")}, tables \in Sources }
    \cup { Tree("Create", "TRIGGER", TableThis("trg"), {Table("y", None)},
                NoExpression, NoExpression, {}, << >>),
           Tree("Create", "SYNONYM", TableThis("s"), {Table("y", None)},
                [NoExpression EXCEPT !.cls = "Table", !.sql = <<"y">>],
                NoExpression, {}, << >>) }
    \cup { Tree("Select", "", NoThis, tables, NoExpression, own, anonymous, << >>) :
             tables \in Sources, own \in Selects, anonymous \in AnonymousCalls }
    \cup { Tree("Union", "", NoThis, tables, expression, NoExpression, {}, << >>) :
             tables \in Sources, expression \in Selects }
    \cup { Tree("Command", "", CommandThis(word), {}, NoExpression, NoExpression, {}, text) :
             word \in {"EXEC", "CREATE", "CONVERT"}, text \in CommandTexts }

\* parse_sql(sql_content, dialect): the try block and its except clause.  The
\* dialect only picks the grammar parse_one reads the text with.
parse_sql(ast, has_lineage) ==
    /\ parsed.pc = "idle"
    /\ LET body == ParseBody(ast, has_lineage)
       IN parsed' =
            IF body.exc = None
            THEN [pc |-> "returned", tree |-> ast, exc |-> None,
                  value |-> body.value, result |-> body.result]
            ELSE IF except_Exception(body.exc)
            THEN [pc |-> "returned", tree |-> ast, exc |-> body.exc,
                  value |-> None, result |-> EmptyResult]
            ELSE [pc |-> "raised", tree |-> ast, exc |-> body.exc,
                  value |-> None, result |-> EmptyResult]
    /\ UNCHANGED <<storeVars, writers, call, built, apiVars>>

\* The caller has the value and goes on to the next statement of its batch.
next_statement ==
    /\ parsed.pc = "returned"
    /\ parsed' = IdleParse
    /\ UNCHANGED <<storeVars, writers, call, built, apiVars>>

NextParse ==
    \/ \E ast \in Trees, has_lineage \in BOOLEAN : parse_sql(ast, has_lineage)
    \/ next_statement

\* A batch of statements analysed one after the other.
SpecParse == Init /\ [][NextParse]_vars

\* --------------------------------------------------------------- id builders

\* The characters of the names: a letter in both cases and the dot.  A Python
\* str is the sequence of its characters.
Chars == {"a", "A", "."}

\* Table and column names, and the one-character database and schema names.
NameTexts == UNION { [1..n -> Chars] : n \in 1..MaxNameLen }
ShortTexts == [1..1 -> Chars]

DataTypes == {"int", "varchar"}

\* str.lower(), character by character.
lower_char(c) == IF c = "A" THEN "a" ELSE c
lower(text) == [i \in 1..Len(text) |-> lower_char(text[i])]

\* str.replace(old, new) for one-character old and new.
replace(text, old, new) == [i \in 1..Len(text) |-> IF text[i] = old THEN new ELSE text[i]]

\* A builder that keeps the letter case of the name.
create_table_entity_as_written(database, schema, table_name, is_view) ==
    LET full_name == database \o <<".">> \o schema \o <<".">> \o table_name
    IN [id |-> replace(full_name, ".", "_"),
        entity_type |-> IF is_view THEN "View" ELSE "Table",
        name |-> table_name, database |-> database, schema |-> schema]

\* create_table_entity: full_name = f"{database}.{schema}.{table_name}",
\* id = full_name.lower().replace('.', '_').
create_table_entity(database, schema, table_name, is_view) ==
    LET full_name == database \o <<".">> \o schema \o <<".">> \o table_name
    IN [id |-> replace(lower(full_name), ".", "_"),
        entity_type |-> IF is_view THEN "View" ELSE "Table",
        name |-> table_name, database |-> database, schema |-> schema]

\* create_column_entity: id = f"{table_entity_id}_{column_name.lower()}".
create_column_entity(table_entity_id, column_name, data_type) ==
    [id |-> table_entity_id \o <<"_">> \o lower(column_name),
     entity_type |-> "Column", name |-> column_name, data_type |-> data_type]

\* The ingestion builds the entity of a table or view ...
build_table(database, schema, table_name, is_view) ==
    /\ built.pc = "idle"
    /\ built' = [pc |-> "table",
                 args |-> [database |-> database, schema |-> schema,
                           table_name |-> table_name, is_view |-> is_view],
                 entity |-> create_table_entity(database, schema, table_name, is_view)]
    /\ UNCHANGED <<storeVars, writers, call, parsed, apiVars>>

\* ... then the entity of one of its columns, from the table entity's id.
build_column(column_name, data_type) ==
    /\ built.pc = "table"
    /\ built' = [pc |-> "column",
                 args |-> [table_entity_id |-> built.entity.id,
                           column_name |-> column_name, data_type |-> data_type],
                 entity |-> create_column_entity(built.entity.id, column_name, data_type)]
    /\ UNCHANGED <<storeVars, writers, call, parsed, apiVars>>

\* The caller has the entity; the next one can be built.
next_entity ==
    /\ built.pc # "idle"
    /\ built' = IdleBuild
    /\ UNCHANGED <<storeVars, writers, call, parsed, apiVars>>

NextBuild ==
    \/ \E database, schema \in ShortTexts, table_name \in NameTexts, is_view \in BOOLEAN :
          build_table(database, schema, table_name, is_view)
    \/ \E column_name \in NameTexts, data_type \in DataTypes :
          build_column(column_name, data_type)
    \/ next_entity

\* Entities built for names in every letter case.
SpecBuild == Init /\ [][NextBuild]_vars

\* -------------------------------------------------------------- round trip

\* The names of the tables stored and read back: both letter cases, a dot
\* inside a name, and a name with a quote character.
RoundTripTables ==
    { [database |-> d, schema |-> <<"a">>, table_name |-> t] :
        d \in {<<"a">>, <<"A">>}, t \in {<<"a">>, <<"A">>, <<"a", ".">>, <<"a", "'">>} }

\* f".property('name', '{self.name}')": the value between two quote characters.
gremlin_literal(text) == <<"'">> \o text \o <<"'">>

\* The store reads a literal from its opening quote to the next quote; the query
\* is well formed when that quote is the literal's last character.
read_literal(literal) ==
    LET closing == { i \in 2..Len(literal) : literal[i] = "'" }
        first == CHOOSE i \in closing : \A j \in closing : i <= j
    IN [ok |-> first = Len(literal), value |-> SubSeq(literal, 2, first - 1)]

\* A to_gremlin_properties that leaves the schema out.
properties_without_schema(entity) ==
    [k \in { f \in DOMAIN entity \ {"id", "schema"} :
               f \in {"database"} => entity[f] # << >> } |-> entity[k]]

\* to_gremlin_properties: name and entity_type, and database and schema when they
\* are not empty.
to_gremlin_properties(entity) ==
    [k \in { f \in DOMAIN entity \ {"id"} :
               f \in {"database", "schema"} => entity[f] # << >> } |-> entity[k]]

\* get_entity: g.V(id).valueMap(true); None without a result, else an entity
\* with the first value of each property (the default where there is none).
get_entity(entity_id) ==
    IF ~HasVertex(entity_id) THEN [found |-> FALSE]
    ELSE LET props == vertices[entity_id]
             first(k) == IF k \in DOMAIN props THEN props[k] ELSE << >>
         IN [found |-> TRUE, id |-> entity_id,
             entity_type |-> props.entity_type,
             name |-> first("name"), database |-> first("database"),
             schema |-> first("schema")]

\* The ingestion builds the entity of a table ...
build_for_store(t) ==
    /\ built.pc = "idle"
    /\ built' = [pc |-> "table", args |-> t,
                 entity |-> create_table_entity(t.database, t.schema, t.table_name, FALSE)]
    /\ UNCHANGED <<storeVars, writers, call, parsed, apiVars>>

\* ... and stores it: create_entity (an addV; the store rejects a malformed query
\* and an id it holds) or upsert_entity (count, then update or create_entity).
store_entity(method) ==
    LET entity == built.entity
        props == to_gremlin_properties(entity)
        texts == {entity.id} \cup { props[k] : k \in DOMAIN props \ {"entity_type"} }
        well_formed == \A text \in texts : read_literal(gremlin_literal(text)).ok
        stored == [k \in DOMAIN props |->
                     IF k = "entity_type" THEN props[k]
                     ELSE read_literal(gremlin_literal(props[k])).value]
    IN /\ built.pc = "table"
       /\ IF ~well_formed \/ (method = "create_entity" /\ HasVertex(entity.id))
          THEN /\ vertices' = vertices
               /\ built' = [built EXCEPT !.pc = "failed"]
          ELSE /\ vertices' = [x \in (DOMAIN vertices) \cup {entity.id} |->
                                 IF x # entity.id THEN vertices[x]
                                 ELSE [k \in DOMAIN stored \cup
                                            (IF HasVertex(x) THEN DOMAIN vertices[x] ELSE {}) |->
                                         IF k \in DOMAIN stored THEN stored[k]
                                         ELSE vertices[x][k]]]
               /\ built' = [built EXCEPT !.pc = "stored"]
       /\ UNCHANGED <<edges, relMissing, trav, writers, call, parsed, apiVars>>

\* The caller reads an entity back by an id.
fetch_entity(entity_id) ==
    /\ built.pc \in {"stored", "failed"}
    /\ built' = [pc |-> "fetched", args |-> built.args, entity |-> built.entity,
                 stored |-> built.pc = "stored",
                 entity_id |-> entity_id, got |-> get_entity(entity_id)]
    /\ UNCHANGED <<storeVars, writers, call, parsed, apiVars>>

\* Table entities stored and read back by their ids.
SpecRoundTrip ==
    Init /\ [][
        \/ \E t \in RoundTripTables : build_for_store(t)
        \/ \E method \in {"create_entity", "upsert_entity"} : store_entity(method)
        \/ \E t \in RoundTripTables :
              fetch_entity(create_table_entity(t.database, t.schema, t.table_name, FALSE).id)
        \/ next_entity
      ]_vars

\* --------------------------------------------------------- column ingestion

\* The tables and the columns of the definitions ingested.
IngestTables == { create_table_entity(<<"a">>, <<"a">>, t, FALSE) : t \in {<<"a">>, <<"a", "a">>} }
IngestColumns == {<<"a">>, <<"A">>, <<"a", "a">>}

\* upsert_entity run alone: the properties of the entity over those of the vertex.
Upserted(entity) ==
    LET props == to_gremlin_properties(entity)
    IN [x \in (DOMAIN vertices) \cup {entity.id} |->
          IF x # entity.id THEN vertices[x]
          ELSE [k \in DOMAIN props \cup (IF HasVertex(x) THEN DOMAIN vertices[x] ELSE {}) |->
                  IF k \in DOMAIN props THEN props[k] ELSE vertices[x][k]]]

\* The write target of a definition is upserted as a Table entity.
ingest_table(table) ==
    /\ trav.pc = "idle"
    /\ vertices' = Upserted(table)
    /\ UNCHANGED <<edges, relMissing, trav, writers, call, parsed, built, apiVars>>

\* A column of an ingested table: upsert_entity(create_column_entity(...)), then
\* create_relationship of a CONTAINS edge from the table to the column.
ingest_column(table, column_name, data_type) ==
    LET column == create_column_entity(table.id, column_name, data_type)
    IN /\ trav.pc = "idle"
       /\ HasVertex(table.id)
       /\ BagCardinality(edges) < MaxEdges
       /\ vertices' = Upserted(column)
       /\ edges' = edges (+) SetToBag({AddE(GraphRelationship(table.id, column.id, "CONTAINS", None))})
       /\ UNCHANGED <<relMissing, trav, writers, call, parsed, built, apiVars>>

\* Tables and their columns ingested, some of them more than once.
SpecIngest ==
    Init /\ [][
        \/ \E table \in IngestTables : ingest_table(table)
        \/ \E table \in IngestTables, column_name \in IngestColumns, data_type \in DataTypes :
              ingest_column(table, column_name, data_type)
      ]_vars

\* ------------------------------------------------------------ upload_files

\* validate_file_extension: the suffix is one of get_allowed_extensions().
validate_file_extension(file) == file.suffix \in config.ALLOWED_FILE_EXTENSIONS

\* The request's counters and results after a pass of the loop that ends with
\* `status`; counter names the counter the pass adds to.
Pass(u, file, status, counter) ==
    [u EXCEPT !.results = Append(@, [file |-> u.i, status |-> status]),
              ![counter] = @ + 1]

\* An except clause of lineage extraction that does not leave the pass: the
\* file is recorded as failed and then as processed.
ExtractionErrorFallsThrough(u, file) ==
    Pass(Pass(u, file, "error", "files_failed"), file, "processed", "files_processed")

\* except Exception around the lineage extraction: status error, files_failed,
\* results.append, continue.
ExtractionError(u, file) == Pass(u, file, "error", "files_failed")

\* One pass of `for upload_file in files`, from the top of the try to the
\* results.append that ends it.
ProcessFile(u, file) ==
    IF ~validate_file_extension(file) THEN Pass(u, file, "error", "files_failed")
    ELSE IF file.size > config.MAX_FILE_SIZE THEN Pass(u, file, "error", "files_failed")
    ELSE IF file.raises \in {"save", "register_file"} THEN Pass(u, file, "error", "files_failed")
    ELSE IF file.duplicate THEN Pass(u, file, "skipped_duplicate", "files_skipped_duplicate")
    ELSE IF file.raises = "ingest_sql_lineage" THEN ExtractionError(u, file)
    ELSE IF file.raises = "mark_file_processed" THEN Pass(u, file, "error", "files_failed")
    ELSE Pass(u, file, "processed", "files_processed")

\* upload_files up to the loop: the counters at 0, no result yet.  An uploaded
\* file is the suffix of its name, the length of its content, whether its content
\* is registered already, and the call of its handling that raises ("no": none).
upload_files ==
    /\ upload.pc = "idle"
    /\ \E files \in UNION { [1..n ->
            { [suffix |-> x[1], size |-> x[2], raises |-> r, duplicate |-> d] :
                x \in {<<".sql", 1>>, <<".sql", 51 * 1024 * 1024>>, <<".exe", 1>>},
                r \in {"no", "save", "register_file", "ingest_sql_lineage",
                       "mark_file_processed"},
                d \in BOOLEAN }] : n \in 0..MaxFiles } :
          upload' = [pc |-> "loop", files |-> files, i |-> 1, results |-> << >>,
                     files_processed |-> 0, files_failed |-> 0,
                     files_skipped_duplicate |-> 0]
    /\ UNCHANGED <<graphVars, config, registry, jobs>>

\* The loop takes the next file.
next_file ==
    /\ upload.pc = "loop"
    /\ upload.i <= Len(upload.files)
    /\ upload' = [ProcessFile(upload, upload.files[upload.i]) EXCEPT !.i = @ + 1]
    /\ UNCHANGED <<graphVars, config, registry, jobs>>

\* After the last file the response is returned.
upload_response ==
    /\ upload.pc = "loop"
    /\ upload.i > Len(upload.files)
    /\ upload' = [upload EXCEPT !.pc = "returned"]
    /\ UNCHANGED <<graphVars, config, registry, jobs>>

next_upload ==
    /\ upload.pc = "returned"
    /\ upload' = IdleUpload
    /\ UNCHANGED <<graphVars, config, registry, jobs>>

\* Batches of files uploaded one request after the other.
SpecUpload ==
    Init /\ [][
        \/ upload_files
        \/ next_file
        \/ upload_response
        \/ next_upload
      ]_vars

\* Names with an underscore in them, for the databases, schemas, tables and
\* columns of a second set of definitions.
UnderscoreNames == {<<"a">>, <<"a", "_", "a">>}

\* Tables and columns whose names hold underscores, ingested in any order.
SpecUnderscore ==
    Init /\ [][
        \/ \E d, s, t \in UnderscoreNames :
              ingest_table(create_table_entity(d, s, t, FALSE))
        \/ \E d, s, t, column_name \in UnderscoreNames :
              ingest_column(create_table_entity(d, s, t, FALSE), column_name, "int")
      ]_vars

\* -------------------------------------------------------- artifact manager

\* The rows of files that are not superseded, oldest first.
Current == { i \in 1..Len(registry.files) : ~registry.files[i].is_superseded }

\* find_duplicate_file(project_id, filename, file_hash): a current row of the
\* file with this hash, or nothing (0).
find_duplicate_file(file_hash) ==
    LET same == { i \in Current : registry.files[i].file_hash = file_hash }
    IN IF same = {} THEN 0 ELSE CHOOSE i \in same : \A j \in same : j <= i

\* find_previous_file_version(project_id, filename): the newest current row of
\* the file, or nothing (0).
find_previous_file_version ==
    IF Current = {} THEN 0 ELSE CHOOSE i \in Current : \A j \in Current : j <= i

\* register_file up to its first await: the hash, the two lookups, the result
\* for a duplicate.
register_file(p, file_hash) ==
    /\ registry.callers[p].pc = "idle"
    /\ Len(registry.files) + Cardinality({ q \in Writers : registry.callers[q].pc
                                               \in {"supersede", "insert"} }) < MaxRows
    /\ LET identical == find_duplicate_file(file_hash)
           previous == find_previous_file_version
       IN registry' = [registry EXCEPT !.callers[p] =
            IF identical # 0
            THEN [pc |-> "done", status |-> "duplicate", file_hash |-> file_hash]
            ELSE [pc |-> IF previous # 0 THEN "supersede" ELSE "insert",
                  status |-> IF previous # 0 THEN "new_version" ELSE "new_file",
                  file_hash |-> file_hash, previous |-> previous]]
    /\ UNCHANGED <<graphVars, upload, config, jobs>>

\* await execute_write(UPDATE files SET is_superseded = true WHERE id = previous).
supersede_previous(p) ==
    /\ registry.callers[p].pc = "supersede"
    /\ registry' = [registry EXCEPT
          !.files[registry.callers[p].previous].is_superseded = TRUE,
          !.callers[p].pc = "insert"]
    /\ UNCHANGED <<graphVars, upload, config, jobs>>

\* await execute_write(INSERT INTO files ... is_superseded false), and the result.
insert_file(p) ==
    /\ registry.callers[p].pc = "insert"
    /\ registry' = [registry EXCEPT
          !.files = Append(@, [file_hash |-> registry.callers[p].file_hash,
                               is_superseded |-> FALSE]),
          !.callers[p].pc = "done"]
    /\ UNCHANGED <<graphVars, upload, config, jobs>>

\* The caller of the artifact manager has its result.
manager_return(p) ==
    /\ registry.callers[p].pc = "done"
    /\ registry' = [registry EXCEPT !.callers[p] = [pc |-> "idle"]]
    /\ UNCHANGED <<graphVars, upload, config, jobs>>

\* Uploads of one file under one project, with one of two contents (SHA256
\* hashes), registered by concurrent requests.
SpecRegister ==
    Init /\ [][
        \/ \E p \in Writers, file_hash \in {"h1", "h2"} : register_file(p, file_hash)
        \/ \E p \in Writers : supersede_previous(p)
        \/ \E p \in Writers : insert_file(p)
        \/ \E p \in Writers : manager_return(p)
      ]_vars

\* get_next_sequence(project_id, timestamp): one more than the largest sequence
\* of the project's runs with this timestamp, 1 when there is none.
get_next_sequence(timestamp) ==
    LET taken == { registry.runs[i].sequence :
                     i \in { j \in 1..Len(registry.runs) : registry.runs[j].timestamp = timestamp } }
    IN IF taken = {} THEN 1 ELSE 1 + CHOOSE n \in taken : \A m \in taken : m <= n

\* create_run up to its first await: the timestamp from the clock, the sequence
\* from _get_next_sequence, the RunContext and its directory.
create_run(p) ==
    /\ registry.callers[p].pc = "idle"
    /\ Len(registry.runs) + Cardinality({ q \in Writers : registry.callers[q].pc = "run" }) < MaxRows
    /\ registry' = [registry EXCEPT !.callers[p] =
          [pc |-> "run", timestamp |-> registry.now,
           sequence |-> get_next_sequence(registry.now)]]
    /\ UNCHANGED <<graphVars, upload, config, jobs>>

\* await execute_write(INSERT INTO runs ...), and return context.
insert_run(p) ==
    /\ registry.callers[p].pc = "run"
    /\ registry' = [registry EXCEPT
          !.runs = Append(@, [timestamp |-> registry.callers[p].timestamp,
                              sequence |-> registry.callers[p].sequence]),
          !.callers[p].pc = "done"]
    /\ UNCHANGED <<graphVars, upload, config, jobs>>

\* datetime.utcnow() reaches the next second.
tick ==
    /\ registry.now < MaxSeconds
    /\ registry' = [registry EXCEPT !.now = @ + 1]
    /\ UNCHANGED <<graphVars, upload, config, jobs>>

\* Runs of one project created by concurrent requests.
SpecRuns ==
    Init /\ [][
        \/ \E p \in Writers : create_run(p)
        \/ \E p \in Writers : insert_run(p)
        \/ \E p \in Writers : manager_return(p)
        \/ tick
      ]_vars

\* ----------------------------------------------------------- ingestion jobs

\* for i in range(10) of run_ingestion_job.
ingestion_steps == 10

\* IngestJobStatus(job_id, status="pending", started_at=utcnow()): completed_at
\* None, progress 0; task is where the job's background task stands.
IngestJobStatus ==
    [status |-> "pending", completed_at |-> Nothing, progress_percent |-> 0,
     task |-> "queued"]

\* An except clause that stamps completed_at and leaves the status alone.
except_keeps_status(job) ==
    [job EXCEPT !.completed_at = <<"utcnow">>, !.task = "finished"]

\* except Exception of run_ingestion_job: status failed, completed_at now.
except_job_failed(job) ==
    [job EXCEPT !.status = "failed", !.completed_at = <<"utcnow">>, !.task = "finished"]

\* ingest_repository: a job with a new id, pending, and its background task.
ingest_repository ==
    /\ Len(jobs) < MaxJobs
    /\ jobs' = Append(jobs, IngestJobStatus)
    /\ UNCHANGED <<graphVars, upload, config, registry>>

\* run_ingestion_job starts: job.status = "running".
run_ingestion_job(job_id) ==
    /\ job_id \in DOMAIN jobs
    /\ jobs[job_id].task = "queued"
    /\ jobs' = [jobs EXCEPT ![job_id].status = "running", ![job_id].task = "loop"]
    /\ UNCHANGED <<graphVars, upload, config, registry>>

\* One pass of the loop (sleep, progress + 10), or after the tenth:
\* status completed, completed_at now.
job_step(job_id) ==
    /\ job_id \in DOMAIN jobs
    /\ jobs[job_id].task = "loop"
    /\ jobs' = [jobs EXCEPT ![job_id] =
          IF @.progress_percent < ingestion_steps * 10
          THEN [@ EXCEPT !.progress_percent = @ + 10]
          ELSE [@ EXCEPT !.status = "completed", !.completed_at = <<"utcnow">>,
                         !.task = "finished"]]
    /\ UNCHANGED <<graphVars, upload, config, registry>>

\* A statement of the try block raises.
job_raises(job_id) ==
    /\ job_id \in DOMAIN jobs
    /\ jobs[job_id].task = "loop"
    /\ jobs' = [jobs EXCEPT ![job_id] = except_job_failed(@)]
    /\ UNCHANGED <<graphVars, upload, config, registry>>

\* Ingestion jobs accepted by the API and run in the background.
SpecJobs ==
    Init /\ [][
        \/ ingest_repository
        \/ \E job_id \in 1..MaxJobs : run_ingestion_job(job_id)
        \/ \E job_id \in 1..MaxJobs : job_step(job_id)
        \/ \E job_id \in 1..MaxJobs : job_raises(job_id)
      ]_vars

\* ------------------------------------------------------ upload configuration

\* ext.strip().lower(), with a dot put in front when there is none, for the
\* extensions the requests name.
validated(ext) ==
    CASE ext \in {"py", ".PY", " .py "} -> ".py"
      [] ext \in {"sql", ".SQL"} -> ".sql"
      [] ext = " .DDL" -> ".ddl"
      [] OTHER -> ext

\* update_upload_config(config_update): an absent field is << >>, a given one
\* <<value>>.  The extensions are validated and assigned first, then the size is
\* checked (HTTP 400 outside 1..500) and assigned, then the settings are saved
\* (HTTP 500 when save_settings returns false).
update_upload_config(config_update, success) ==
    LET extensions == IF config_update.allowed_extensions = << >>
                      THEN config.ALLOWED_FILE_EXTENSIONS
                      ELSE { validated(config_update.allowed_extensions[1][i]) :
                               i \in 1..Len(config_update.allowed_extensions[1]) }
        given == config_update.max_file_size_mb # << >>
        max_file_size_mb == IF given THEN config_update.max_file_size_mb[1]
                            ELSE config.UPLOAD_MAX_FILE_SIZE_MB
    IN /\ config' =
            IF given /\ (max_file_size_mb < 1 \/ max_file_size_mb > 500)
            THEN [config EXCEPT !.ALLOWED_FILE_EXTENSIONS = extensions,
                                !.status_code = 400]
            ELSE [ALLOWED_FILE_EXTENSIONS |-> extensions,
                  UPLOAD_MAX_FILE_SIZE_MB |-> max_file_size_mb,
                  MAX_FILE_SIZE |-> IF given THEN max_file_size_mb * 1024 * 1024
                                    ELSE config.MAX_FILE_SIZE,
                  persisted |-> IF success THEN <<extensions, max_file_size_mb>>
                                ELSE config.persisted,
                  status_code |-> IF success THEN 200 ELSE 500]
       /\ UNCHANGED <<graphVars, upload, registry, jobs>>

\* Requests to PUT /api/v1/files/config, one after the other.
SpecConfig ==
    Init /\ [][
        \E allowed_extensions \in {<< >>, << << >> >>, <<<<".sql">>>>, <<<<"py", ".SQL">>>>,
                                  <<<<" .DDL">>>>},
           max_file_size_mb \in {<< >>, <<0>>, <<1>>, <<100>>, <<500>>, <<501>>},
           success \in BOOLEAN :
          update_upload_config([allowed_extensions |-> allowed_extensions,
                                max_file_size_mb |-> max_file_size_mb], success)
      ]_vars

\* ------------------------------------------------------------------ claims

Range(f) == { f[i] : i \in DOMAIN f }
Returned == BagToSet(trav.results)

\* C1: get_upstream_lineage(entity_id, K) terminates on any graph, cycles included:
\* the repeat loop makes at most K passes (it is over once K passes are made, and
\* every traverser still in the loop has made fewer than K hops), and every
\* returned path has at most K hops.
C1_UpstreamTerminatesWithinDepth ==
    (trav.kind = "upstream" /\ trav.pc # "idle") =>
        /\ trav.loops <= trav.max_depth
        /\ (trav.loops = trav.max_depth => trav.pc = "done")
        /\ \A p \in BagToSet(trav.frontier) : Hops(p) = trav.loops /\ Hops(p) < trav.max_depth
        /\ \A p \in Returned : Hops(p) <= trav.max_depth

\* C1 witness: an upstream query is complete with a path of exactly K hops whose
\* last vertex still has an incoming lineage edge (the depth, not a leaf, ended it).
C1_Witness ==
    /\ trav.kind = "upstream" /\ trav.pc = "done"
    /\ \E p \in Returned :
          Hops(p) = trav.max_depth /\ InE(PathEnd(p), LineageLabels) # {}

\* The store keeps evaluating a query it has accepted.
FairSpec == Spec /\ WF_vars(Traverse)

\* C1 as a liveness property, under FairSpec: a query that is being evaluated
\* completes.
UpstreamCompletes == (trav.pc = "running") ~> (trav.pc = "done")

\* C2: no path returned by get_upstream_lineage, get_downstream_lineage or
\* find_lineage_path contains the same vertex id twice.
C2_ReturnedPathsSimple ==
    trav.kind \in {"upstream", "downstream", "path"} =>
        \A p \in Returned : Cardinality(Range(p.vs)) = Len(p.vs)

\* C2 witness: a returned two-hop path on a graph where an edge leads from the
\* path's last vertex back into the path.
C2_Witness ==
    /\ trav.pc = "done" /\ trav.kind \in {"downstream", "path"}
    /\ \E p \in Returned :
          Hops(p) = 2 /\ \E e \in OutE(PathEnd(p), RelationshipType) : e.inV \in Range(p.vs)

\* C3: with b derived from a and c derived from b, both edges built by
\* create_derives_from_relationship, get_upstream_lineage(c, 2) returns the path
\* [c, b, a] and get_upstream_lineage(c, 1) returns only [c, b].
C3_BuilderChainUpstream ==
    ( /\ BagToSet(edges) = { AddE(create_derives_from_relationship("a", "b", None)),
                             AddE(create_derives_from_relationship("b", "c", None)) }
      /\ trav.kind = "upstream" /\ trav.start = "c" /\ trav.pc = "done"
      /\ trav.max_depth \in {1, 2} )
    => { p.vs : p \in Returned } =
          IF trav.max_depth = 1 THEN { <<"c", "b">> } ELSE { <<"c", "b", "a">> }

\* The simple paths of 0..n hops that extend the paths ps against the direction of
\* the lineage edges (vertex sequences).
RECURSIVE SimpleUpstream(_, _)
SimpleUpstream(ps, n) ==
    IF n = 0 \/ ps = {} THEN ps
    ELSE ps \cup SimpleUpstream(
            { Append(p, e.outV) : <<p, e>> \in
                { <<q, x>> \in ps \X BagToSet(edges) :
                    /\ x.label \in LineageLabels
                    /\ x.inV = q[Len(q)]
                    /\ x.outV \notin Range(q) } },
            n - 1)

\* C4: every vertex that a simple path of 1..K lineage hops reaches from entity_id
\* appears in at least one path get_upstream_lineage(entity_id, K) returns.
C4_UpstreamCoversReachable ==
    (trav.kind = "upstream" /\ trav.pc = "done" /\ HasVertex(trav.start)) =>
        \A q \in SimpleUpstream({ <<trav.start>> }, trav.max_depth) :
            Len(q) > 1 => \E p \in Returned : q[Len(q)] \in Range(p.vs)

\* C7: writing the same relationship a second time adds no second edge: the store
\* never holds two edges with the same endpoints, type and properties.
C7_NoDuplicateEdge ==
    \A e \in BagToSet(edges) : CopiesIn(e, edges) = 1

\* C8: after create_relationship completes both endpoints it named exist (an absent
\* endpoint was created by the call), and every stored edge joins existing vertices.
C8_EndpointsExist ==
    /\ relMissing = {}
    /\ \A e \in BagToSet(edges) : HasVertex(e.outV) /\ HasVertex(e.inV)

\* The maximal simple upstream paths of the summary: along lineage edges carrying
\* transformation_logic, ended by a vertex with no further such edge to a new
\* vertex or by SummaryDepth hops (edge sequences, last hop first).
RECURSIVE LogicPaths(_, _)
LogicPaths(p, n) ==
    LET more == { e \in InE(PathEnd(p), LineageLabels) :
                    e.transformation_logic # None /\ e.outV \notin Range(p.vs) }
    IN IF n = 0 \/ more = {} THEN (IF Hops(p) = 0 THEN {} ELSE { p })
       ELSE UNION { LogicPaths(Extend(p, e, e.outV), n - 1) : e \in more }

RECURSIVE PathCopies(_, _)
PathCopies(p, i) == IF i = 0 THEN 1 ELSE CopiesIn(p.es[i], edges) * PathCopies(p, i - 1)

RECURSIVE LogicCount(_)
LogicCount(paths) ==
    IF paths = {} THEN 0
    ELSE LET p == CHOOSE x \in paths : TRUE
         IN PathCopies(p, Hops(p)) * Hops(p) + LogicCount(paths \ {p})

\* C9: get_transformation_summary returns transformation_count = the number of
\* transformation_logic values on the edges of all upstream paths (an edge counted
\* once per path holding it) and transformations = the set of those values.
C9_SummaryCountsEveryPath ==
    (trav.kind = "summary" /\ trav.pc = "done" /\ HasVertex(trav.start)) =>
        LET expected == LogicPaths(StartPath(trav.start), SummaryDepth)
            summary == TransformationSummary(trav.start, trav.results)
        IN /\ summary.transformation_count = LogicCount(expected)
           /\ summary.transformations =
                 { p.es[i].transformation_logic : <<p, i>> \in
                     { <<q, j>> \in expected \X (1..MaxEdges) : j <= Len(q.es) } }

\* C5: with concurrent upsert_entity calls for the same id no writer fails because
\* the entity already exists (and the store holds one vertex for the id).
C5_ConcurrentUpsertNeverConflicts ==
    \A w \in Writers : writers[w].result # "conflict"

\* C6: an upsert_entity call made when an earlier call has stored the id updates
\* that vertex: the number of vertices stays as it was and nothing is created.
C6_SecondUpsertUpdates ==
    [][ \A w \in Writers :
          ( /\ writers[w].pc = "counted"
            /\ writers'[w].pc = "done"
            /\ HasVertex(writers[w].entity.id) )
          => /\ writers'[w].result = "updated"
             /\ Cardinality(DOMAIN vertices') = Cardinality(DOMAIN vertices)
             /\ vertices'[writers[w].entity.id].name = writers[w].entity.name ]_vars

\* C6 witness: a second call for an id has completed as an update.
C6_Witness ==
    \E w \in Writers :
        /\ writers[w].pc = "done" /\ writers[w].result = "updated"
        /\ HasVertex(writers[w].entity.id)

\* C10: when the first attempt of _execute_query fails with a non-transient error
\* (a malformed query), the query is submitted exactly once and never retried.
C10_NonTransientNotRetried ==
    (call.log # << >> /\ call.log[1] = "malformed") =>
        /\ call.submitted = 1
        /\ call.pc = "raised"

\* C11: _execute_query submits one query at most 3 times; when every attempt is
\* throttled the error reaches the caller after the third attempt, and when an
\* attempt succeeds the call returns with it and submits nothing further.
C11_AtMostThreeAttempts ==
    /\ call.submitted <= 3
    /\ call.submitted = Len(call.log)
    /\ (call.pc = "raised" => call.submitted = 3 /\ "ok" \notin Range(call.log))
    /\ (Len(call.log) = 3 /\ Range(call.log) = {"throttled"} => call.pc = "raised")
    /\ \A i \in DOMAIN call.log :
          call.log[i] = "ok" => i = Len(call.log) /\ call.pc = "returned"

\* C11 witness: a call whose three attempts were all throttled has raised.
C11_Witness ==
    call.pc = "raised" /\ call.log = <<"throttled", "throttled", "throttled">>

\* C11 witness of the other case: a call returned on its second attempt.
C11_ReturnedOnRetry ==
    call.pc = "returned" /\ call.log = <<"throttled", "ok">>

\* C12: the lineage queries run with max_depth = 10 when the caller gives none and
\* reject a max_depth outside 1..50 without running a traversal: no traversal is
\* ever submitted with a max_depth outside 1..50.
C12_DepthOutOfRangeRejected ==
    (trav.pc # "idle" /\ trav.kind \in {"upstream", "downstream", "path"}) =>
        trav.max_depth \in 1..50

\* The half of C12 the code keeps: a traversal submitted without a max_depth runs
\* with 10 (the callers of SpecDepth pass nothing or a value outside 1..50).
DefaultDepthIsTen ==
    (trav.pc # "idle" /\ trav.max_depth \in 1..50) => trav.max_depth = 10

\* A traversal with max_depth = 0 that has walked two hops.
ZeroDepthWalks ==
    trav.max_depth = 0 /\ \E p \in Returned : Hops(p) = 2

C13_TwoHops ==
    /\ trav.kind = "path" /\ trav.pc = "done" /\ trav.max_depth = 2
    /\ \E p \in Returned : Len(p.es) = 2

\* The statements with one write target, and that target's name.
HasWriteTarget(ast) ==
    \/ ast.cls \in {"Insert", "Update"}
    \/ ast.cls = "Create" /\ ast.kind \in {"TABLE", "VIEW", "MATERIALIZED VIEW"}

TargetName(ast) == (CHOOSE t \in ast.this.tables : TRUE).name

\* C14: for a statement with one write target parse_sql returns a result whose
\* write is the target and whose read holds no reference to the target, under
\* its name or under an alias.
C14_WriteIsTargetReadExcludesIt ==
    (parsed.pc = "returned" /\ HasWriteTarget(parsed.tree)) =>
        /\ parsed.value = "dict"
        /\ parsed.result.write = <<TargetName(parsed.tree)>>
        /\ \A r \in parsed.result.read : r[1] # TargetName(parsed.tree)

\* The part of C14 the code keeps: a returned read set never holds the text
\* that write holds.
ReadExcludesWriteText ==
    parsed.pc = "returned" => parsed.result.write \notin parsed.result.read

\* UPDATE x ... FROM x AS t is analysed with the target in read.
AliasedTargetRead ==
    /\ parsed.pc = "returned" /\ parsed.value = "dict"
    /\ parsed.tree.cls = "Update"
    /\ parsed.result.write = <<"x">>
    /\ <<"x", "AS", "t">> \in parsed.result.read

\* The statements that contain a SELECT, and its top-level projections.
ContainsSelect(ast) ==
    \/ ast.cls = "Select"
    \/ ast.cls \in {"Create", "Insert"} /\ ast.expression.cls = "Select"

TopLevel(ast) == IF ast.cls = "Select" THEN ast.own.selects ELSE ast.expression.selects

\* The column record a projection is to give: the alias or the column's own name
\* as target, the leaf columns as sources, the expression's text as transformation.
RecordOf(record, projection) ==
    /\ record.sources = projection.columns
    /\ projection.cls = "Alias" =>
          record.target = <<projection.alias>> /\ record.transformation = projection.this
    /\ projection.cls # "Alias" => record.transformation = projection.sql
    /\ projection.cls = "Column" => record.target = projection.this

\* C15: for a statement that contains a SELECT parse_sql returns exactly one
\* column record per top-level projection (none for the projections of nested
\* subqueries and CTEs), each with the target, sources and transformation of its
\* projection.
C15_OneRecordPerProjection ==
    (parsed.pc = "returned" /\ ContainsSelect(parsed.tree)) =>
        LET top == TopLevel(parsed.tree)
            columns == parsed.result.columns
        IN /\ parsed.value = "dict"
           /\ Len(columns) = Len(top)
           /\ \A i \in 1..Len(top) : \E j \in 1..Len(columns) : RecordOf(columns[j], top[i])

\* CREATE VIEW x AS SELECT a + b AS c FROM y comes back as None.
ScenarioAReturnsNone ==
    /\ parsed.pc = "returned" /\ parsed.value = None /\ parsed.exc = "AttributeError"
    /\ parsed.tree.cls = "Create" /\ parsed.tree.kind = "VIEW"
    /\ parsed.tree.this = TableThis("x")
    /\ parsed.tree.tables = {Table("y", None)}
    /\ parsed.tree.expression = Select(<<Alias(Add("a", "b"), "c")>>, << >>)

\* A bare SELECT comes back with reads and without a column record.
BareSelectNoColumns ==
    /\ parsed.pc = "returned" /\ parsed.value = "dict"
    /\ parsed.tree.cls = "Select"
    /\ parsed.result.read # {} /\ parsed.result.columns = << >>

\* No returned result holds a column record for an Alias node: every path to one
\* ends in the AttributeError.
NoAliasedRecord ==
    (parsed.pc = "returned" /\ parsed.result.columns # << >>) =>
        /\ SelectSeq(parsed.tree.expression.selects, IsAlias) = << >>
        /\ parsed.tree.expression.nested = << >>

\* C16: parse_sql never raises to its caller: whatever fails inside (the parser
\* on the text, the analysis on the tree) comes back as the failure value None,
\* and the caller goes on with the next statement.
C16_NeverRaises ==
    /\ parsed.pc # "raised"
    /\ (parsed.pc = "returned" /\ parsed.exc # None) =>
          parsed.value = None /\ ENABLED next_statement

\* C16 witness: an AttributeError of the column analysis came back as None.
C16_Witness ==
    /\ parsed.pc = "returned" /\ parsed.exc = "AttributeError" /\ parsed.value = None
    /\ parsed.tree.cls = "Insert"

\* C16 witness of the parser's case: a text parse_one rejects came back as None.
C16_ParseErrorReturned ==
    parsed.pc = "returned" /\ parsed.exc = "ParseError" /\ parsed.value = None

\* C17: write is "console" exactly when the statement has no explicit write
\* target and the result has a read table or a column record; a statement with
\* an explicit write target keeps it (write is neither "console" nor null), and
\* with no target, no reads and no columns write is null.
C17_ConsoleOnlyWithoutTarget ==
    (parsed.pc = "returned" /\ parsed.value = "dict") =>
        LET explicit == HasWriteTarget(parsed.tree)
            r == parsed.result
        IN /\ r.write = console <=> (~explicit /\ (r.read # {} \/ r.columns # << >>))
           /\ explicit => r.write \notin {console, Nothing}
           /\ (~explicit /\ r.read = {} /\ r.columns = << >>) => r.write = Nothing

\* The rule as the code has it, on the target the classification recorded: write
\* is "console" exactly when none was recorded and there are reads or columns,
\* and is the recorded target otherwise.
ConsoleRuleOnRecordedTarget ==
    (parsed.pc = "returned" /\ parsed.value = "dict") =>
        LET recorded == Classify(parsed.tree).write
            r == parsed.result
        IN /\ r.write = console <=> (recorded = Nothing /\ (r.read # {} \/ r.columns # << >>))
           /\ r.write # console => r.write = recorded

\* INSERT INTO x (a) VALUES (1) comes back with write = "console" and x in read.
InsertWithColumnListConsole ==
    /\ parsed.pc = "returned" /\ parsed.value = "dict"
    /\ parsed.tree.cls = "Insert" /\ parsed.tree.this = SchemaThis("x")
    /\ parsed.tree.expression = Values
    /\ parsed.result.write = console /\ <<"x">> \in parsed.result.read

\* A result that has "console" for its column records alone (no read table).
ConsoleForColumnsAlone ==
    /\ parsed.pc = "returned" /\ parsed.value = "dict"
    /\ parsed.result.write = console /\ parsed.result.read = {}

\* The name a CREATE statement defines.
DefinedName(ast) == <<ast.this.sql[1]>>

\* C18: for CREATE VIEW / MATERIALIZED VIEW / FUNCTION / PROCEDURE / TABLE the
\* defined name is recorded in the place of its kind (views, materialized_views,
\* functions_and_procedures, write for a table) and in no other of the three
\* side-entity sets.
C18_CreateRecordedByKind ==
    ( /\ parsed.pc = "returned"
      /\ parsed.tree.cls = "Create"
      /\ parsed.tree.kind \in {"VIEW", "MATERIALIZED VIEW", "FUNCTION", "PROCEDURE", "TABLE"} )
    => LET kind == parsed.tree.kind
           name == DefinedName(parsed.tree)
           r == parsed.result
       IN /\ parsed.value = "dict"
          /\ r.views = IF kind = "VIEW" THEN {name} ELSE {}
          /\ r.materialized_views = IF kind = "MATERIALIZED VIEW" THEN {name} ELSE {}
          /\ r.functions_and_procedures =
                IF kind \in {"FUNCTION", "PROCEDURE"} THEN {name} ELSE {}
          /\ kind = "TABLE" => r.write = name

\* The part of C18 the code keeps: in a returned result the three side-entity
\* sets hold nothing but the defined name, and only the set of the kind holds it.
SideEntitiesOnlyByKind ==
    (parsed.pc = "returned" /\ parsed.value = "dict" /\ parsed.tree.cls = "Create") =>
        LET kind == parsed.tree.kind
            r == parsed.result
        IN /\ r.views # {} => kind = "VIEW"
           /\ r.materialized_views # {} => kind = "MATERIALIZED VIEW"
           /\ r.functions_and_procedures # {} => kind \in {"FUNCTION", "PROCEDURE"}
           /\ (r.views \cup r.materialized_views \cup r.functions_and_procedures)
                 \subseteq {parsed.tree.this.sql}

\* CREATE TABLE x (a ...) comes back with write = "console" and x in read.
CreateTableConsole ==
    /\ parsed.pc = "returned" /\ parsed.value = "dict"
    /\ parsed.tree.cls = "Create" /\ parsed.tree.kind = "TABLE"
    /\ parsed.tree.expression = NoExpression
    /\ parsed.result.write = console /\ <<"x">> \in parsed.result.read

\* A view whose body is a UNION is recorded in views and as write.
UnionViewRecorded ==
    /\ parsed.pc = "returned" /\ parsed.value = "dict"
    /\ parsed.tree.kind = "VIEW" /\ parsed.tree.expression = UnionBody
    /\ parsed.result.views = {<<"x">>} /\ parsed.result.write = <<"x">>

FunctionCallsFiltered ==
    parsed.pc = "returned" =>
        \A entry \in parsed.result.procedure_calls :
            entry.type = "function_call" =>
                Upper(entry.name) \notin {"COUNT", "SUM", "AVG", "MIN", "MAX", "CAST", "CONVERT"}

\* A statement calling count(...) and my_udf(...) through Anonymous nodes comes
\* back with my_udf alone.
AnonymousCountDropped ==
    /\ parsed.pc = "returned" /\ parsed.value = "dict"
    /\ parsed.tree.anonymous = {"my_udf", "count"}
    /\ parsed.result.procedure_calls = {[name |-> "my_udf", type |-> "function_call"]}

\* The same text in capital letters.
upper(text) == [i \in 1..Len(text) |-> IF text[i] = "a" THEN "A" ELSE text[i]]

\* C20: the id create_table_entity gives is "database.schema.table" with every
\* letter in lower case and every '.' turned into '_', and the id
\* create_column_entity gives is the table id, '_' and the column name in lower
\* case; is_view and data_type have no part in it, and the same names written in
\* capitals or in small letters give the same id.
C20_IdFromNamesOnly ==
    /\ built.pc = "table" =>
          LET a == built.args
              full == a.database \o <<".">> \o a.schema \o <<".">> \o a.table_name
              id == built.entity.id
          IN /\ Len(id) = Len(full)
             /\ \A i \in 1..Len(full) :
                   id[i] = IF full[i] \in {".", "_"} THEN "_"
                           ELSE IF full[i] \in {"a", "A"} THEN "a" ELSE full[i]
             /\ \A v \in BOOLEAN :
                   /\ create_table_entity(upper(a.database), upper(a.schema),
                                          upper(a.table_name), v).id = id
                   /\ create_table_entity(lower(a.database), lower(a.schema),
                                          lower(a.table_name), v).id = id
    /\ built.pc = "column" =>
          LET a == built.args
              n == Len(a.table_entity_id)
              id == built.entity.id
          IN /\ Len(id) = n + 1 + Len(a.column_name)
             /\ SubSeq(id, 1, n) = a.table_entity_id
             /\ id[n + 1] = "_"
             /\ \A i \in 1..Len(a.column_name) :
                   id[n + 1 + i] = IF a.column_name[i] \in {"a", "A"} THEN "a"
                                   ELSE a.column_name[i]
             /\ \A d \in DataTypes :
                   create_column_entity(a.table_entity_id, upper(a.column_name), d).id = id

\* C20 witness: the view entity of database "A", schema "a", table "A." has the
\* id a_a_a_.
C20_Witness ==
    /\ built.pc = "table"
    /\ built.args = [database |-> <<"A">>, schema |-> <<"a">>,
                     table_name |-> <<"A", ".">>, is_view |-> TRUE]
    /\ built.entity.id = <<"a", "_", "a", "_", "a", "_">>

\* C20 witness of the column case: column "Aa" of that kind of table.
C20_ColumnBuilt ==
    /\ built.pc = "column"
    /\ built.args.column_name = <<"A", "a">>
    /\ built.entity.id = <<"a", "_", "a", "_", "a", "_", "a", "a">>

C21_AbsentFetched ==
    built.pc = "fetched" /\ ~built.got.found /\ vertices # << >>

\* A table whose name holds a quote character is never stored.
QuoteNeverStored ==
    (built.pc \in {"stored", "failed"} /\ "'" \in Range(built.args.table_name))
        => built.pc = "failed"

\* C22: validate_lineage_types(entity_id) emits a record for each upstream
\* DERIVES_FROM edge whose source vertex has a declared data_type, for upstream
\* chains of any length (stated for the edges that enter entity_id itself).
C22_RecordPerTypedSource ==
    (trav.kind = "validate" /\ trav.pc = "done") =>
        \A e \in InE(trav.start, {"DERIVES_FROM"}) :
            (e.outV # trav.start /\ "data_type" \in DOMAIN vertices[e.outV]) =>
                \E p \in BagToSet(issues(trav.results)) : PathEnd(p) = e.outV

\* C23: every relationship stored has a confidence_score within [0, 1] (0..10 in
\* tenths), whatever confidence the caller of create_derives_from_relationship gave.
C23_ConfidenceWithinUnit ==
    \A e \in BagToSet(edges) : 0 <= e.confidence_score /\ e.confidence_score <= 10

\* A relationship built without an explicit confidence is stored with 1.0.
C23_DefaultIsOne ==
    \A e \in BagToSet(edges) : e.label = "CONTAINS" => e.confidence_score = 10

\* A CONTAINS edge stored next to a DERIVES_FROM edge with a confidence below 0.
C23_DefaultStored ==
    \E e, f \in BagToSet(edges) :
        e.label = "CONTAINS" /\ f.label = "DERIVES_FROM" /\ f.confidence_score < 0

\* C24: an ingested Column entity has exactly one incoming CONTAINS edge, from
\* its owning table, also after the same column was ingested again.
C24_OneContainsEdge ==
    \A id \in DOMAIN vertices :
        vertices[id].entity_type = "Column" =>
            /\ \A e \in InE(id, {"CONTAINS"}) : CopiesIn(e, edges) = 1
            /\ Cardinality(InE(id, {"CONTAINS"})) = 1

\* Every CONTAINS edge of an ingested column leaves the table the column's id
\* was built from.
C24_FromOwningTable ==
    \A e \in BagToSet(edges) :
        /\ e.label = "CONTAINS"
        /\ \E table \in IngestTables, column_name \in IngestColumns :
              e.outV = table.id /\ e.inV = create_column_entity(table.id, column_name, "int").id

\* Two columns ingested once each.
C24_TwoColumnsIngested ==
    \E e, f \in BagToSet(edges) : e.outV # f.outV /\ BagCardinality(edges) = 2

ObjectOf(vertex) ==
    <<vertex.entity_type, lower(vertex.name),
      IF "database" \in DOMAIN vertex THEN lower(vertex.database) ELSE << >>,
      IF "schema" \in DOMAIN vertex THEN lower(vertex.schema) ELSE << >>>>

\* C26: distinct objects get distinct entity ids, so an upsert for one object
\* never overwrites the vertex of another: a vertex stands for the same object
\* (letter case aside) after every write.
C26_NoOverwrite ==
    [][\A id \in DOMAIN vertices : ObjectOf(vertices'[id]) = ObjectOf(vertices[id])]_vars

\* C27: after any sequence or interleaving of register_file calls for one
\* (project_id, filename) at most one of its file records is not superseded.
\* (get_latest_file takes the newest of the current records.)
C27_OneCurrentVersion == Cardinality(Current) <= 1

\* C28: two create_run calls for one project in the same second never obtain the
\* same sequence number: neither two callers that hold a RunContext nor two rows
\* of runs share timestamp and sequence.
C28_DistinctSequences ==
    /\ \A p, q \in Writers :
          (p # q /\ registry.callers[p].pc \in {"run", "done"}
                 /\ registry.callers[q].pc \in {"run", "done"}
                 /\ "sequence" \in DOMAIN registry.callers[p]
                 /\ "sequence" \in DOMAIN registry.callers[q]
                 /\ registry.callers[p].timestamp = registry.callers[q].timestamp)
             => registry.callers[p].sequence # registry.callers[q].sequence
    /\ \A i, j \in 1..Len(registry.runs) :
          (i # j /\ registry.runs[i].timestamp = registry.runs[j].timestamp)
             => registry.runs[i].sequence # registry.runs[j].sequence

\* C29: the status of an ingestion job only moves forward, pending to running to
\* completed or failed; completed and failed never change again; completed_at is
\* set only while the status is completed or failed.
C29_StatusMovesForward ==
    [][\A job_id \in DOMAIN jobs :
          /\ \/ jobs'[job_id].status = jobs[job_id].status
             \/ <<jobs[job_id].status, jobs'[job_id].status>> \in
                   {<<"pending", "running">>, <<"running", "completed">>,
                    <<"running", "failed">>}
          /\ jobs[job_id].status \in {"completed", "failed"} => jobs'[job_id] = jobs[job_id]
          /\ jobs'[job_id].completed_at # Nothing
                => jobs'[job_id].status \in {"completed", "failed"}]_vars

\* C29 witness: one job failed half way and another completed, both with
\* completed_at set.
C29_Witness ==
    /\ Len(jobs) = 2
    /\ jobs[1].status = "failed" /\ jobs[1].progress_percent = 50
    /\ jobs[1].completed_at # Nothing
    /\ jobs[2].status = "completed" /\ jobs[2].completed_at # Nothing

\* C30: when update_upload_config rejects a request with HTTP 400, the upload
\* configuration in memory (allowed extensions and size limit) is what it was
\* before the request.
C30_RejectedLeavesConfig ==
    [][config'.status_code = 400 =>
          /\ config'.ALLOWED_FILE_EXTENSIONS = config.ALLOWED_FILE_EXTENSIONS
          /\ config'.UPLOAD_MAX_FILE_SIZE_MB = config.UPLOAD_MAX_FILE_SIZE_MB
          /\ config'.MAX_FILE_SIZE = config.MAX_FILE_SIZE]_vars

\* A rejected request leaves the size limit and the saved settings as they were.
C30_RejectedLeavesSize ==
    [][config'.status_code = 400 =>
          /\ config'.UPLOAD_MAX_FILE_SIZE_MB = config.UPLOAD_MAX_FILE_SIZE_MB
          /\ config'.MAX_FILE_SIZE = config.MAX_FILE_SIZE
          /\ config'.persisted = config.persisted]_vars

====
